---- MODULE Spec2Model ----
(***************************************************************************)
(* Coupon Management System (src/main.py): the in-memory coupon catalog    *)
(* and usage ledger, the eligibility evaluator, the discount calculator    *)
(* and the three routes POST /coupons, GET /coupons and POST /best-coupon. *)
(*                                                                         *)
(* Conventions of the model                                                *)
(*  - An Optional[...] value is a sequence of length 0 (None) or 1.        *)
(*  - A List[str] rule value is a set: the code only tests membership and  *)
(*    intersection on it.                                                  *)
(*  - Amounts (unitPrice, discountValue, ...) are integers.  A discount is *)
(*    kept in hundredths, so that (discountValue / 100) * total is the     *)
(*    integer discountValue * total and nothing is rounded away.           *)
(*  - coupons is a Python dict: a sequence of values with distinct codes,  *)
(*    in insertion order.                                                  *)
(*  - Coupon.description is left out: no statement reads it.               *)
(*  - date.today() is read once per request.                               *)
(***************************************************************************)
EXTENDS Integers, Sequences, FiniteSets, TLC

VARIABLES
    coupons,        \* src/main.py:66  the catalog, dict code -> Coupon
    usage_counter,  \* src/main.py:67  the ledger, dict code -> dict userId -> int
    call,           \* the last route or helper invocation: arguments and return
    prev,           \* the get_discount invocation before the last one
    created,        \* history: the coupons of the successful create_coupon calls
    threads         \* the create_coupon requests in flight (threadpool workers)

vars == <<coupons, usage_counter, call, prev, created, threads>>

\* ------------------------------------------------------------------ bounds

MaxDay == 3
MaxCoupons == 2
MaxRules == 2
MaxUsed == 2
MaxTotal == 3
MaxPercent == 3
NumThreads == 2

\* ------------------------------------------------------------ constants

\* discountValue / 100 (src/main.py:130): discounts are kept in hundredths
Hundred == 100

\* ------------------------------------------------------------- optionals

None == << >>

Some(x) == <<x>>

\* ------------------------------------------------------ Python truthiness

\* `if x is not None`
Truthy_IsNotNone(o, zero) == o # None

\* `if x` on an Optional int/float/bool/list: None, 0, False and [] are falsy.
\* zero is the falsy value of the operand's type.
Truthy(o, zero) == o # None /\ o[1] # zero

\* ----------------------------------------------------------------- models

FLAT == "FLAT"

PERCENT == "PERCENT"

RuleFields ==
    { "allowedUserTiers", "minLifetimeSpend", "minOrdersPlaced",
      "firstOrderOnly", "allowedCountries", "minCartValue",
      "applicableCategories", "excludedCategories", "minItemsCount" }

\* Eligibility() with every field at its default, None
NoRules == [f \in RuleFields |-> None]

\* the falsy value a field of that type can carry: 0, False or []
FalsyOf(f) ==
    IF f \in {"allowedUserTiers", "allowedCountries",
              "applicableCategories", "excludedCategories"} THEN {}
    ELSE IF f = "firstOrderOnly" THEN FALSE
    ELSE 0

\* ---------------------------------------------------------------- helpers

RECURSIVE SumSeq(_)
SumSeq(s) == IF s = << >> THEN 0 ELSE Head(s) + SumSeq(Tail(s))

cart_total(cart) ==
    SumSeq([i \in DOMAIN cart |-> cart[i].unitPrice * cart[i].quantity])

\* {i.category for i in cart.items}: None is a member when an item has none
Categories(cart) == { cart[i].category : i \in DOMAIN cart }

\* categories.intersection(lst): a List[str] never holds None
Intersects(categories, lst) == \E c \in lst : Some(c) \in categories

ItemsCount(cart) == SumSeq([i \in DOMAIN cart |-> cart[i].quantity])

\* x in lst, for an Optional[str] x and a List[str] lst
OptIn(x, lst) == x # None /\ x[1] \in lst

\* usage_counter.get(code, {}).get(userId, 0)
UsedCount(ledger, code, userId) ==
    IF code \in DOMAIN ledger /\ userId \in DOMAIN ledger[code]
    THEN ledger[code][userId]
    ELSE 0

DateValid(coupon, today) ==
    coupon.startDate <= today /\ today <= coupon.endDate

\* the nine `if e.<rule> and <test>: return False` statements, in order
RulesReject(e, user, cart) ==
    IF Truthy(e.allowedUserTiers, {}) /\ ~OptIn(user.userTier, e.allowedUserTiers[1])
    THEN TRUE
    ELSE IF Truthy(e.minLifetimeSpend, 0) /\ user.lifetimeSpend < e.minLifetimeSpend[1]
    THEN TRUE
    ELSE IF Truthy(e.minOrdersPlaced, 0) /\ user.ordersPlaced < e.minOrdersPlaced[1]
    THEN TRUE
    ELSE IF Truthy(e.firstOrderOnly, FALSE) /\ user.ordersPlaced > 0
    THEN TRUE
    ELSE IF Truthy(e.allowedCountries, {}) /\ ~OptIn(user.country, e.allowedCountries[1])
    THEN TRUE
    ELSE IF Truthy(e.minCartValue, 0) /\ cart_total(cart) < e.minCartValue[1]
    THEN TRUE
    ELSE IF Truthy(e.applicableCategories, {})
            /\ ~Intersects(Categories(cart), e.applicableCategories[1])
    THEN TRUE
    ELSE IF Truthy(e.excludedCategories, {})
            /\ Intersects(Categories(cart), e.excludedCategories[1])
    THEN TRUE
    ELSE IF Truthy(e.minItemsCount, 0) /\ ItemsCount(cart) < e.minItemsCount[1]
    THEN TRUE
    ELSE FALSE

\* the usage limit with `used > limit`
UsageExhausted_Gt(coupon, user, ledger) ==
    /\ Truthy(coupon.usageLimitPerUser, 0)
    /\ UsedCount(ledger, coupon.code, user.userId) > coupon.usageLimitPerUser[1]

\* `if coupon.usageLimitPerUser:` ... `if used >= limit: return False`
UsageExhausted(coupon, user, ledger) ==
    /\ Truthy(coupon.usageLimitPerUser, 0)
    /\ UsedCount(ledger, coupon.code, user.userId) >= coupon.usageLimitPerUser[1]

\* eligible(coupon, user, cart); today is date.today(), ledger is usage_counter.
\* `if e:` is true of every Eligibility object (a pydantic model has no
\* __bool__ or __len__), so it tests only that the field is not None.
eligible(coupon, user, cart, today, ledger) ==
    IF ~DateValid(coupon, today) THEN FALSE
    ELSE IF coupon.eligibility # None /\ RulesReject(coupon.eligibility[1], user, cart)
    THEN FALSE
    ELSE IF UsageExhausted(coupon, user, ledger) THEN FALSE
    ELSE TRUE

Min(a, b) == IF a <= b THEN a ELSE b

\* get_discount that ignores maxDiscountAmount
get_discount_NoCap(coupon, total) ==
    IF coupon.discountType = FLAT
    THEN Hundred * coupon.discountValue
    ELSE coupon.discountValue * total

\* get_discount(coupon, total), in hundredths
get_discount(coupon, total) ==
    IF coupon.discountType = FLAT
    THEN Hundred * coupon.discountValue
    ELSE IF Truthy(coupon.maxDiscountAmount, 0)
         THEN Min(coupon.discountValue * total, Hundred * coupon.maxDiscountAmount[1])
         ELSE coupon.discountValue * total

\* ------------------------------------------------------------ the catalog

Codes(catalog) == { catalog[i].code : i \in DOMAIN catalog }

\* `code in coupons`
Contains(catalog, code) == code \in Codes(catalog)

\* coupons[code], for a code of the catalog
Lookup(catalog, code) ==
    catalog[CHOOSE i \in DOMAIN catalog : catalog[i].code = code]

\* coupons[coupon.code] = coupon: a new key is appended, an existing key keeps
\* its place and takes the new value
Put(catalog, coupon) ==
    IF Contains(catalog, coupon.code)
    THEN [i \in DOMAIN catalog |->
            IF catalog[i].code = coupon.code THEN coupon ELSE catalog[i]]
    ELSE Append(catalog, coupon)

EmptyDict == << >>

\* usage_counter[code] = {}
ResetLedger(ledger, code) ==
    [c \in DOMAIN ledger \cup {code} |-> IF c = code THEN EmptyDict ELSE ledger[c]]

\* usage_counter[code][userId] += 1 (no statement of the source does this)
Redeem(ledger, code, userId) ==
    [c \in DOMAIN ledger \cup {code} |->
        IF c = code
        THEN [u \in (IF c \in DOMAIN ledger THEN DOMAIN ledger[c] ELSE {}) \cup {userId} |->
                IF u = userId THEN UsedCount(ledger, code, userId) + 1
                ELSE ledger[c][u]]
        ELSE ledger[c]]

\* ----------------------------------------------------------------- routes

Created == 200

BadRequest == 400

\* POST /coupons without lines 143-144: a duplicate code is written too
create_coupon_Overwrite(coupon) ==
    /\ coupons' = Put(coupons, coupon)
    /\ usage_counter' = ResetLedger(usage_counter, coupon.code)
    /\ call' = [op |-> "create_coupon", arg |-> coupon, ret |-> Created]

\* POST /coupons without line 147
create_coupon_NoLedger(coupon) ==
    IF Contains(coupons, coupon.code)
    THEN /\ call' = [op |-> "create_coupon", arg |-> coupon, ret |-> BadRequest]
         /\ UNCHANGED <<coupons, usage_counter>>
    ELSE /\ coupons' = Put(coupons, coupon)
         /\ call' = [op |-> "create_coupon", arg |-> coupon, ret |-> Created]
         /\ UNCHANGED usage_counter

\* POST /coupons
create_coupon(coupon) ==
    IF Contains(coupons, coupon.code)
    THEN /\ call' = [op |-> "create_coupon", arg |-> coupon, ret |-> BadRequest]
         /\ UNCHANGED <<coupons, usage_counter>>
    ELSE /\ coupons' = Put(coupons, coupon)
         /\ usage_counter' = ResetLedger(usage_counter, coupon.code)
         /\ call' = [op |-> "create_coupon", arg |-> coupon, ret |-> Created]

\* GET /coupons
list_all ==
    /\ call' = [op |-> "list_all", arg |-> None, ret |-> coupons]
    /\ UNCHANGED <<coupons, usage_counter>>

\* best_discount = -1
NoBest_Neg == [best |-> None, best_discount |-> -1]

\* best = None; best_discount = 0
NoBest == [best |-> None, best_discount |-> 0]

\* the loop body with `disc >= best_discount`
LoopBody_Ge(acc, c, user, cart, total, today, ledger) ==
    IF eligible(c, user, cart, today, ledger)
    THEN LET disc == get_discount(c, total)
         IN  IF disc >= acc.best_discount
             THEN [best |-> Some(c), best_discount |-> disc]
             ELSE acc
    ELSE acc

\* the loop body without the eligible test
LoopBody_NoFilter(acc, c, user, cart, total, today, ledger) ==
    LET disc == get_discount(c, total)
    IN  IF disc > acc.best_discount
        THEN [best |-> Some(c), best_discount |-> disc]
        ELSE acc

\* the body of `for c in coupons.values():`
LoopBody(acc, c, user, cart, total, today, ledger) ==
    IF eligible(c, user, cart, today, ledger)
    THEN LET disc == get_discount(c, total)
         IN  IF disc > acc.best_discount
             THEN [best |-> Some(c), best_discount |-> disc]
             ELSE acc
    ELSE acc

RECURSIVE Loop(_, _, _, _, _, _, _)
Loop(acc, cs, user, cart, total, today, ledger) ==
    IF cs = << >> THEN acc
    ELSE Loop(LoopBody(acc, Head(cs), user, cart, total, today, ledger),
              Tail(cs), user, cart, total, today, ledger)

\* the returned JSON object; `if not best` tests only best is None
BestResponse(acc, total) ==
    IF acc.best = None
    THEN [coupon |-> None]
    ELSE [coupon |-> Some(acc.best[1].code),
          discount |-> acc.best_discount,
          final_price |-> Hundred * total - acc.best_discount]

\* POST /best-coupon that also records the redemption
best_coupon_Redeems(user, cart, today) ==
    LET total == cart_total(cart)
        acc == Loop(NoBest, coupons, user, cart, total, today, usage_counter)
    IN  /\ call' = [op |-> "best_coupon",
                    arg |-> [user |-> user, cart |-> cart, today |-> today],
                    ret |-> BestResponse(acc, total)]
        /\ usage_counter' =
              IF acc.best = None THEN usage_counter
              ELSE Redeem(usage_counter, acc.best[1].code, user.userId)
        /\ UNCHANGED coupons

\* POST /best-coupon; today is what date.today() returns during the request
best_coupon(user, cart, today) ==
    LET total == cart_total(cart)
        acc == Loop(NoBest, coupons, user, cart, total, today, usage_counter)
    IN  /\ call' = [op |-> "best_coupon",
                    arg |-> [user |-> user, cart |-> cart, today |-> today],
                    ret |-> BestResponse(acc, total)]
        /\ UNCHANGED <<coupons, usage_counter>>

\* ------------------------------------------- the service, one call at a time

Days == 1 .. MaxDay

CodePool == {"A", "B", "C"}

\* (discountType, discountValue, maxDiscountAmount)
KindPool ==
    { <<FLAT, 10, None>>, <<FLAT, -5, None>>,
      <<PERCENT, 20, Some(15)>>, <<PERCENT, 10, None>> }

\* (startDate, endDate, usageLimitPerUser, eligibility)
GatePool ==
    { <<1, MaxDay, None, None>>,
      <<2, 2, Some(1), Some([NoRules EXCEPT !.excludedCategories = Some({"toys"})])>> }

MkCoupon(code, kind, gate) ==
    [code |-> code, discountType |-> kind[1], discountValue |-> kind[2],
     maxDiscountAmount |-> kind[3], startDate |-> gate[1], endDate |-> gate[2],
     usageLimitPerUser |-> gate[3], eligibility |-> gate[4]]

CouponPool == { MkCoupon(c, k, g) : c \in CodePool, k \in KindPool, g \in GatePool }

UserPool ==
    { [userId |-> "u1", userTier |-> Some("gold"), country |-> Some("IN"),
       lifetimeSpend |-> 100, ordersPlaced |-> 0],
      [userId |-> "u2", userTier |-> None, country |-> Some("US"),
       lifetimeSpend |-> 0, ordersPlaced |-> 1] }

Item(category, unitPrice, quantity) ==
    [productId |-> "p", category |-> category,
     unitPrice |-> unitPrice, quantity |-> quantity]

CartPool ==
    { << >>,
      << Item(Some("books"), 50, 2) >>,
      << Item(Some("toys"), 50, 1) >>,
      << Item(None, 25, 2), Item(Some("toys"), 50, 1) >> }

NoCall == [op |-> "none", arg |-> None, ret |-> None]

Init ==
    /\ coupons = << >>
    /\ usage_counter = EmptyDict
    /\ call = NoCall
    /\ prev = NoCall
    /\ created = << >>
    /\ threads = << >>

\* the catalog is kept to MaxCoupons entries; a duplicate is always tried
CreateCoupon ==
    \E coupon \in CouponPool :
        /\ Len(coupons) < MaxCoupons \/ Contains(coupons, coupon.code)
        /\ create_coupon(coupon)
        /\ created' = IF call'.ret = Created THEN Append(created, coupon) ELSE created
        /\ UNCHANGED <<prev, threads>>

ListAll == list_all /\ UNCHANGED <<prev, created, threads>>

BestCoupon ==
    \E user \in UserPool, cart \in CartPool, today \in Days :
        /\ best_coupon(user, cart, today)
        /\ UNCHANGED <<prev, created, threads>>

Next == CreateCoupon \/ ListAll \/ BestCoupon

Spec == Init /\ [][Next]_vars

\* ------------------------------------------------------ checked properties

IsCall(op) == call.op = op

Returned == IsCall("best_coupon") /\ call.ret.coupon # None

ReqEligible(c) ==
    eligible(c, call.arg.user, call.arg.cart, call.arg.today, usage_counter)

ReqDiscount(c) == get_discount(c, cart_total(call.arg.cart))

IndexOf(catalog, code) == CHOOSE i \in DOMAIN catalog : catalog[i].code = code

\* C1: create_coupon on a code already in the catalog answers 400 and leaves
\* the catalog and the ledger as they were; on a new code it answers success,
\* stores the coupon under its code and sets the code's ledger entry to {}.
C1_CreateContract ==
    [][ call'.op = "create_coupon" =>
          LET c == call'.arg
          IN  IF Contains(coupons, c.code)
              THEN /\ call'.ret = BadRequest
                   /\ coupons' = coupons
                   /\ usage_counter' = usage_counter
              ELSE /\ call'.ret = Created
                   /\ Contains(coupons', c.code)
                   /\ Lookup(coupons', c.code) = c
                   /\ c.code \in DOMAIN usage_counter'
                   /\ usage_counter'[c.code] = EmptyDict ]_vars

\* a duplicate carrying another body was rejected, next to a stored coupon
C1_Witness ==
    /\ IsCall("create_coupon")
    /\ call.ret = BadRequest
    /\ Len(coupons) = 2
    /\ Lookup(coupons, call.arg.code) # call.arg

\* C2: a coupon returned by best_coupon is in the catalog, is eligible for the
\* request, has a discount no smaller than that of any eligible coupon of the
\* catalog, and the returned discount is that coupon's computed discount.
C2_BestIsMaxEligible ==
    Returned =>
        /\ Contains(coupons, call.ret.coupon[1])
        /\ LET best == Lookup(coupons, call.ret.coupon[1])
           IN  /\ ReqEligible(best)
               /\ call.ret.discount = ReqDiscount(best)
               /\ \A i \in DOMAIN coupons :
                     ReqEligible(coupons[i]) => ReqDiscount(coupons[i]) <= ReqDiscount(best)

\* the winner was created second, and the first coupon pays more but is not
\* eligible
C2_Witness ==
    /\ Returned
    /\ Len(coupons) = 2
    /\ call.ret.coupon[1] = coupons[2].code
    /\ ~ReqEligible(coupons[1])
    /\ ReqDiscount(coupons[1]) > call.ret.discount

\* C3: best_coupon returns either no coupon or a coupon with discount > 0, and
\* no coupon exactly when no eligible coupon of the catalog pays more than 0.
C3_NeverNonPositive ==
    IsCall("best_coupon") =>
        /\ call.ret.coupon # None => call.ret.discount > 0
        /\ call.ret.coupon = None <=>
              ~\E i \in DOMAIN coupons :
                    ReqEligible(coupons[i]) /\ ReqDiscount(coupons[i]) > 0

\* nothing returned although eligible coupons paying 0 and less are there
C3_Witness ==
    /\ IsCall("best_coupon")
    /\ call.ret.coupon = None
    /\ \E i \in DOMAIN coupons : ReqEligible(coupons[i]) /\ ReqDiscount(coupons[i]) = 0
    /\ \E i \in DOMAIN coupons : ReqEligible(coupons[i]) /\ ReqDiscount(coupons[i]) < 0

\* C4: the catalog enumerates in the order of the successful create_coupon
\* calls, and among the eligible coupons with the highest discount best_coupon
\* returns the one created first.
C4_TieBreakCreationOrder ==
    /\ coupons = created
    /\ IsCall("list_all") => call.ret = created
    /\ Returned =>
          \A j \in DOMAIN created :
              (ReqEligible(created[j]) /\ ReqDiscount(created[j]) = call.ret.discount)
                  => IndexOf(created, call.ret.coupon[1]) <= j

\* two eligible coupons tie at the top, after a rejected create
C4_Witness ==
    /\ Returned
    /\ \E j \in DOMAIN created :
          /\ created[j].code # call.ret.coupon[1]
          /\ ReqEligible(created[j])
          /\ ReqDiscount(created[j]) = call.ret.discount

\* C5: list_all and best_coupon change neither the catalog nor the ledger, and
\* every code whose create_coupon succeeded maps to the coupon of that call.
C5_ReadOnlyRoutes ==
    /\ [][ call'.op # "create_coupon" => UNCHANGED <<coupons, usage_counter>> ]_vars
    /\ [](\A i \in DOMAIN created :
             /\ Contains(coupons, created[i].code)
             /\ Lookup(coupons, created[i].code) = created[i])

\* a coupon was returned from a catalog of two
C5_Witness ==
    /\ Returned
    /\ Len(created) = 2
    /\ Len(coupons) = 2

\* C6: the ledger has an entry for exactly the catalog's codes, every count the
\* evaluator reads is 0, and a positive usageLimitPerUser never changes the
\* outcome of eligible.
C6_UsageNeverTriggers ==
    /\ DOMAIN usage_counter = Codes(coupons)
    /\ \A i \in DOMAIN coupons, user \in UserPool :
          /\ UsedCount(usage_counter, coupons[i].code, user.userId) = 0
          /\ (coupons[i].usageLimitPerUser # None /\ coupons[i].usageLimitPerUser[1] > 0)
                => ~UsageExhausted(coupons[i], user, usage_counter)
    /\ \A i \in DOMAIN coupons, user \in UserPool, cart \in CartPool, today \in Days :
          (coupons[i].usageLimitPerUser # None /\ coupons[i].usageLimitPerUser[1] > 0)
             => eligible(coupons[i], user, cart, today, usage_counter)
                  = eligible([coupons[i] EXCEPT !.usageLimitPerUser = None],
                             user, cart, today, usage_counter)

\* a coupon limited to one use per user was returned
C6_Witness ==
    /\ Returned
    /\ Lookup(coupons, call.ret.coupon[1]).usageLimitPerUser = Some(1)

\* ------------------------------------------- eligible, on its whole input

\* the value a configured rule carries in the checks below
TruthyOf(f) ==
    CASE f = "allowedUserTiers" -> {"gold"}
      [] f = "minLifetimeSpend" -> 100
      [] f = "minOrdersPlaced" -> 1
      [] f = "firstOrderOnly" -> TRUE
      [] f = "allowedCountries" -> {"IN"}
      [] f = "minCartValue" -> 100
      [] f = "applicableCategories" -> {"books"}
      [] f = "excludedCategories" -> {"toys"}
      [] f = "minItemsCount" -> 2

\* Eligibility with the fields of S given, truthy where on[f], else falsy
MkRules(S, on) ==
    [f \in RuleFields |->
        IF f \notin S THEN None
        ELSE IF on[f] THEN Some(TruthyOf(f)) ELSE Some(FalsyOf(f))]

\* every Eligibility with at most MaxRules fields given
RulesPool ==
    UNION { { MkRules(S, on) : on \in [S -> BOOLEAN] } :
            S \in { T \in SUBSET RuleFields : Cardinality(T) <= MaxRules } }

RuleCouponPool ==
    { MkCoupon("A", <<FLAT, 10, None>>, <<2, 2, limit, e>>) :
        limit \in {None, Some(1)},
        e \in {None} \cup { Some(r) : r \in RulesPool } }

RuleUserPool ==
    { [userId |-> "u1", userTier |-> tier, country |-> country,
       lifetimeSpend |-> spend, ordersPlaced |-> orders] :
        tier \in {None, Some("gold")}, country \in {Some("IN"), Some("US")},
        spend \in {0, 100}, orders \in {0, 1} }

\* usage_counter with code A created and u1's count at n
LedgerOf(n) == [c \in {"A"} |-> [u \in {"u1"} |-> n]]

InitRules ==
    /\ coupons = << >>
    /\ usage_counter \in { LedgerOf(n) : n \in 0 .. 1 }
    /\ call = NoCall
    /\ prev = NoCall
    /\ created = << >>
    /\ threads = << >>

\* one invocation of eligible
Eligible(coupon, user, cart, today) ==
    /\ call' = [op |-> "eligible",
                arg |-> [coupon |-> coupon, user |-> user, cart |-> cart, today |-> today],
                ret |-> eligible(coupon, user, cart, today, usage_counter)]
    /\ UNCHANGED <<coupons, usage_counter, prev, created, threads>>

EligibleRules ==
    /\ call.op = "none"
    /\ \E coupon \in RuleCouponPool, user \in RuleUserPool, cart \in CartPool, today \in Days :
          Eligible(coupon, user, cart, today)

NextRules == EligibleRules

SpecRules == InitRules /\ [][NextRules]_vars

\* the rule of field f with value v, as a condition on the user and the cart
RuleHolds(f, v, user, cart) ==
    CASE f = "allowedUserTiers" -> user.userTier # None /\ user.userTier[1] \in v
      [] f = "minLifetimeSpend" -> user.lifetimeSpend >= v
      [] f = "minOrdersPlaced" -> user.ordersPlaced >= v
      [] f = "firstOrderOnly" -> user.ordersPlaced = 0
      [] f = "allowedCountries" -> user.country # None /\ user.country[1] \in v
      [] f = "minCartValue" -> cart_total(cart) >= v
      [] f = "applicableCategories" ->
            \E i \in DOMAIN cart : cart[i].category # None /\ cart[i].category[1] \in v
      [] f = "excludedCategories" ->
            \A i \in DOMAIN cart : cart[i].category = None \/ cart[i].category[1] \notin v
      [] f = "minItemsCount" -> ItemsCount(cart) >= v

Configured(e, f) == e[f] # None /\ e[f][1] # FalsyOf(f)

AllChecksHold(coupon, user, cart, today, ledger) ==
    /\ coupon.startDate <= today
    /\ today <= coupon.endDate
    /\ coupon.eligibility # None =>
          \A f \in RuleFields :
              Configured(coupon.eligibility[1], f)
                  => RuleHolds(f, coupon.eligibility[1][f][1], user, cart)
    /\ (coupon.usageLimitPerUser # None /\ coupon.usageLimitPerUser[1] # 0)
          => UsedCount(ledger, coupon.code, user.userId) < coupon.usageLimitPerUser[1]

WithRule(coupon, f, v) ==
    [coupon EXCEPT !.eligibility = Some([coupon.eligibility[1] EXCEPT ![f] = v])]

\* C9: a rule field carrying 0, False or [] gives the result of the same
\* coupon with the field absent, and eligible is the conjunction of the date
\* window, every configured (non-falsy) rule and the usage limit.
C9_FalsyMeansUnset ==
    IsCall("eligible") =>
        LET a == call.arg
        IN  /\ call.ret = AllChecksHold(a.coupon, a.user, a.cart, a.today, usage_counter)
            /\ a.coupon.eligibility # None =>
                  \A f \in RuleFields :
                      ~Configured(a.coupon.eligibility[1], f) =>
                          /\ eligible(WithRule(a.coupon, f, None),
                                      a.user, a.cart, a.today, usage_counter) = call.ret
                          /\ eligible(WithRule(a.coupon, f, Some(FalsyOf(f))),
                                      a.user, a.cart, a.today, usage_counter) = call.ret

\* eligible although an empty tier list and firstOrderOnly = False are given,
\* for a user without tier who has ordered before
C9_Witness ==
    /\ IsCall("eligible")
    /\ call.ret = TRUE
    /\ call.arg.coupon.eligibility # None
    /\ call.arg.coupon.eligibility[1].allowedUserTiers = Some({})
    /\ call.arg.coupon.eligibility[1].firstOrderOnly = Some(FALSE)
    /\ call.arg.user.userTier = None
    /\ call.arg.user.ordersPlaced = 1

\* ------------------------------------------ eligible, on the usage ledger

UsageCouponPool ==
    { MkCoupon("A", <<FLAT, 10, None>>, <<2, 2, limit, e>>) :
        limit \in {None} \cup { Some(n) : n \in -1 .. MaxUsed + 1 },
        e \in {None, Some([NoRules EXCEPT !.firstOrderOnly = Some(TRUE)])} }

LedgerPool ==
    { EmptyDict, [c \in {"A"} |-> EmptyDict] } \cup { LedgerOf(n) : n \in 0 .. MaxUsed }

InitUsage ==
    /\ coupons = << >>
    /\ usage_counter \in LedgerPool
    /\ call = NoCall
    /\ prev = NoCall
    /\ created = << >>
    /\ threads = << >>

EligibleUsage ==
    /\ call.op = "none"
    /\ \E coupon \in UsageCouponPool, user \in UserPool, cart \in CartPool, today \in Days :
          Eligible(coupon, user, cart, today)

NextUsage == EligibleUsage

SpecUsage == InitUsage /\ [][NextUsage]_vars

CallLimit == call.arg.coupon.usageLimitPerUser

CallUsed == UsedCount(usage_counter, call.arg.coupon.code, call.arg.user.userId)

\* the date window and the eligibility rules pass: the same coupon without a
\* usage limit is eligible
PassesOtherwise ==
    eligible([call.arg.coupon EXCEPT !.usageLimitPerUser = None],
             call.arg.user, call.arg.cart, call.arg.today, usage_counter)

\* C7 (as amended): for usageLimitPerUser = N with N a positive integer and
\* the date window and rules passing, eligible is false exactly when the
\* ledger count of (code, userId) is >= N, for every count >= 0.
C7_UsageLimitPositive ==
    (IsCall("eligible") /\ CallLimit # None /\ CallLimit[1] > 0 /\ PassesOtherwise)
        => (call.ret = FALSE <=> CallUsed >= CallLimit[1])

\* C7 (as stated): the same for every non-negative N, 0 included.
C7_UsageLimitNonNegative ==
    (IsCall("eligible") /\ CallLimit # None /\ CallLimit[1] >= 0 /\ PassesOtherwise)
        => (call.ret = FALSE <=> CallUsed >= CallLimit[1])

\* limit 2, one use on the ledger: still eligible
C7_Witness ==
    /\ IsCall("eligible")
    /\ CallLimit = Some(2)
    /\ CallUsed = 1
    /\ call.ret = TRUE

\* ------------------------------------------------------------ get_discount

DiscountCouponPool ==
    { MkCoupon("A", <<type, 10 * k, cap>>, <<1, MaxDay, None, None>>) :
        type \in {FLAT, PERCENT}, k \in -1 .. MaxPercent,
        cap \in {None, Some(0), Some(15), Some(-5)} }

TotalPool == { 50 * k : k \in 0 .. MaxTotal }

InitDiscount ==
    /\ coupons \in { <<c>> : c \in DiscountCouponPool }
    /\ usage_counter = EmptyDict
    /\ call = NoCall
    /\ prev = NoCall
    /\ created = << >>
    /\ threads = << >>

\* get_discount on the coupon, for one total after another
GetDiscount ==
    \E total \in TotalPool :
        /\ prev' = call
        /\ call' = [op |-> "get_discount",
                    arg |-> [coupon |-> coupons[1], total |-> total],
                    ret |-> get_discount(coupons[1], total)]
        /\ UNCHANGED <<coupons, usage_counter, created, threads>>

NextDiscount == GetDiscount

SpecDiscount == InitDiscount /\ [][NextDiscount]_vars

\* min(discountValue / 100 * total, cap) with a cap set, else uncapped, in
\* hundredths
PercentFormula(coupon, total) ==
    IF coupon.maxDiscountAmount # None /\ coupon.maxDiscountAmount[1] # 0
    THEN IF coupon.discountValue * total <= Hundred * coupon.maxDiscountAmount[1]
         THEN coupon.discountValue * total
         ELSE Hundred * coupon.maxDiscountAmount[1]
    ELSE coupon.discountValue * total

\* C8 (as amended): for a PERCENT coupon get_discount is
\* min(discountValue/100 * total, cap) with a (non-falsy) cap and
\* discountValue/100 * total without, and for discountValue >= 0 it is
\* monotone non-decreasing in total.
C8_PercentMonotoneNonNegative ==
    (IsCall("get_discount") /\ call.arg.coupon.discountType = PERCENT) =>
        /\ call.ret = PercentFormula(call.arg.coupon, call.arg.total)
        /\ (/\ prev.op = "get_discount"
            /\ call.arg.coupon.discountValue >= 0
            /\ prev.arg.total <= call.arg.total) => prev.ret <= call.ret

\* C8 (as stated): the same, monotone for every coupon.
C8_PercentMonotoneAll ==
    (IsCall("get_discount") /\ call.arg.coupon.discountType = PERCENT) =>
        /\ call.ret = PercentFormula(call.arg.coupon, call.arg.total)
        /\ (/\ prev.op = "get_discount"
            /\ prev.arg.total <= call.arg.total) => prev.ret <= call.ret

\* 20% capped at 15: 10 on a total of 50, then 15 on a total of 100
C8_Witness ==
    /\ IsCall("get_discount")
    /\ prev.op = "get_discount"
    /\ call.arg.coupon.discountType = PERCENT
    /\ call.arg.coupon.discountValue = 20
    /\ call.arg.coupon.maxDiscountAmount = Some(15)
    /\ prev.arg.total = 50
    /\ prev.ret = Hundred * 10
    /\ call.arg.total = 100
    /\ call.ret = Hundred * 15

\* ------------------------------- create_coupon, requests served in parallel

ThreadIds == 1 .. NumThreads

ConcCouponPool ==
    { MkCoupon(c, k, <<1, MaxDay, None, None>>) :
        c \in {"A", "B"}, k \in {<<FLAT, 10, None>>, <<FLAT, 20, None>>} }

Idle == [pc |-> "idle", coupon |-> None, ret |-> None]

InitConc ==
    /\ coupons = << >>
    /\ usage_counter = EmptyDict
    /\ call = NoCall
    /\ prev = NoCall
    /\ created = << >>
    /\ threads = [t \in ThreadIds |-> Idle]

\* a POST /coupons request is handed to a worker thread
Begin(t) ==
    /\ threads[t].pc = "idle"
    /\ \E coupon \in ConcCouponPool :
          threads' = [threads EXCEPT ![t] = [pc |-> "check", coupon |-> Some(coupon), ret |-> None]]
    /\ UNCHANGED <<coupons, usage_counter, call, prev, created>>

\* line 143-144: if coupon.code in coupons: raise HTTPException(400, ...)
Check(t) ==
    /\ threads[t].pc = "check"
    /\ threads' = [threads EXCEPT ![t] =
                     IF Contains(coupons, threads[t].coupon[1].code)
                     THEN [@ EXCEPT !.pc = "done", !.ret = Some(BadRequest)]
                     ELSE [@ EXCEPT !.pc = "store"]]
    /\ UNCHANGED <<coupons, usage_counter, call, prev, created>>

\* line 146: coupons[coupon.code] = coupon
Store(t) ==
    /\ threads[t].pc = "store"
    /\ coupons' = Put(coupons, threads[t].coupon[1])
    /\ threads' = [threads EXCEPT ![t].pc = "ledger"]
    /\ UNCHANGED <<usage_counter, call, prev, created>>

\* line 147 and 149: usage_counter[coupon.code] = {}; return the success
Finish(t) ==
    /\ threads[t].pc = "ledger"
    /\ usage_counter' = ResetLedger(usage_counter, threads[t].coupon[1].code)
    /\ threads' = [threads EXCEPT ![t] = [@ EXCEPT !.pc = "done", !.ret = Some(Created)]]
    /\ created' = Append(created, threads[t].coupon[1])
    /\ UNCHANGED <<coupons, call, prev>>

NextConc == \E t \in ThreadIds : Begin(t) \/ Check(t) \/ Store(t) \/ Finish(t)

SpecConc == InitConc /\ [][NextConc]_vars

Succeeded(t) == threads[t].pc = "done" /\ threads[t].ret = Some(Created)

\* C10: of the create_coupon calls carrying one code at most one returns
\* success, and the coupon stored under the code is the one of the successful
\* call.
C10_OneCreatePerCode ==
    \A t \in ThreadIds :
        Succeeded(t) =>
            /\ \A u \in ThreadIds \ {t} :
                  Succeeded(u) => threads[u].coupon[1].code # threads[t].coupon[1].code
            /\ Contains(coupons, threads[t].coupon[1].code)
            /\ Lookup(coupons, threads[t].coupon[1].code) = threads[t].coupon[1]

====
